---- MODULE Spec2Model ----
(***************************************************************************)
(* GristDocAPI (src/lib/grist-api.ts): the bulk operations addRecords,     *)
(* updateRecords, deleteRecords and syncTable, the helpers they use        *)
(* (makeKey, filterMatches, makeTableData, lodash chunk / pick / isEqual)  *)
(* and the document they talk to.                                          *)
(*                                                                         *)
(* A cell value is an integer: Null is JavaScript's null, 1..MaxVal are    *)
(* ordinary values, and Undef is what rec[col] yields for a column the     *)
(* record does not carry (JavaScript's undefined).  An IRecord is a        *)
(* function from the column ids it carries to cell values.  In the id      *)
(* column Zero is the number 0, which is no row's id.                      *)
(***************************************************************************)
EXTENDS Integers, Sequences, FiniteSets, TLC

\* ------------------------------------------------------------- bounds
MaxVal == 1
MaxRecs == 2
MaxRows == 2
MaxCalls == 2
MaxChunk == 1
MaxUpd == 3
MaxCells == 2

\* -------------------------------------------------- program constants
DefaultChunkSize == 500

\* -------------------------------------------------------- cell values
Null == 0
Undef == 0 - 1
Zero == 0 - 2
Vals == Null .. MaxVal

DataCols == {"A", "B"}

\* rec[col] of JavaScript: undefined for a column the record lacks.
Get(rec, col) == IF col \in DOMAIN rec THEN rec[col] ELSE Undef

\* JSON.stringify of one array element: undefined is written as null.
JsonCell(v) == IF v = Undef THEN Null ELSE v

\* lodash isEqual on cell values (structural equality).
isEqual(a, b) == a = b

Range(s) == {s[i] : i \in 1 .. Len(s)}

Min(a, b) == IF a < b THEN a ELSE b

\* ------------------------------------------------------- pure helpers

makeKeyRaw(rec, keyColumns) ==
    [i \in 1 .. Len(keyColumns) |-> Get(rec, keyColumns[i])]

\* makeKey: JSON.stringify(keyColumns.map((col) => rec[col])).  The JSON text
\* of an array of cells is modelled as the sequence of the cells as written.
makeKey(rec, keyColumns) ==
    [i \in 1 .. Len(keyColumns) |-> JsonCell(Get(rec, keyColumns[i]))]

\* filterMatches: every filter column's allowed list includes rec[colId].
filterMatches(rec, filters) ==
    \A colId \in DOMAIN filters : Get(rec, colId) \in filters[colId]

chunkFirstOnly(array, size) ==
    IF size < 1 \/ Len(array) = 0 THEN << >>
    ELSE <<SubSeq(array, 1, Min(size, Len(array)))>>

\* lodash chunk(array, size).
chunk(array, size) ==
    IF size < 1 \/ Len(array) = 0 THEN << >>
    ELSE [i \in 1 .. ((Len(array) + size - 1) \div size) |->
            SubSeq(array, (i - 1) * size + 1, Min(i * size, Len(array)))]

\* lodash pick(object, keys).
pick(rec, keys) == [c \in (keys \cap DOMAIN rec) |-> rec[c]]

\* makeTableData: the union of the records' columns, each column holding
\* rec[key] for every record (undefined where the record lacks it).
makeTableData(recs) ==
    LET allKeys == UNION {DOMAIN recs[i] : i \in 1 .. Len(recs)}
    IN  [key \in allKeys |-> [i \in 1 .. Len(recs) |-> Get(recs[i], key)]]

\* The number of rows a column-oriented payload holds.
NumRows(data) ==
    IF DOMAIN data = {} THEN 0
    ELSE Len(data[CHOOSE c \in DOMAIN data : TRUE])

\* ------------------------------------------------ the document (server)
\* The table behind /docs/<doc>/tables/<table>/data: every row carries id and
\* every data column; a cell the request does not supply is stored as null
\* (the wire format is JSON, which has no undefined).

AllCols == {"id"} \cup DataCols

\* GET .../data?filter=...: the rows whose cells are in the filter's lists,
\* all rows when the request carries no filter; in column-oriented form.
ServerFetch(rows, flt) ==
    LET keep(r) == (~flt.on) \/ (\A c \in DOMAIN flt.spec : r[c] \in flt.spec[c])
        sel == SelectSeq(rows, keep)
    IN  [c \in AllCols |-> [i \in 1 .. Len(sel) |-> sel[i][c]]]

\* POST .../data answers an error for a payload that names no column (it
\* holds no row count); otherwise it appends one row per payload position.
ServerRejectsAdd(data) == DOMAIN data = {}

ServerAdd(rows, nid, data) ==
    rows \o [i \in 1 .. NumRows(data) |->
               [c \in AllCols |->
                  IF c = "id" THEN nid + i - 1
                  ELSE IF c \in DOMAIN data THEN JsonCell(data[c][i]) ELSE Null]]

\* PATCH .../data: position i of the payload sets the cells of the row whose
\* id is data.id[i]; positions are applied in order, unknown ids are ignored.
ServerUpdate(rows, data) ==
    LET hits(r) == {i \in 1 .. NumRows(data) : data["id"][i] = r["id"]}
        last(r) == CHOOSE i \in hits(r) : \A j \in hits(r) : j <= i
    IN  [k \in 1 .. Len(rows) |->
           IF hits(rows[k]) = {} THEN rows[k]
           ELSE [c \in AllCols |->
                   IF c # "id" /\ c \in DOMAIN data
                   THEN JsonCell(data[c][last(rows[k])])
                   ELSE rows[k][c]]]

\* POST .../apply with BulkRemoveRecord.
ServerDelete(rows, ids) ==
    LET keep(r) == r["id"] \notin Range(ids)
    IN  SelectSeq(rows, keep)

\* ------------------------------------------------------------ fetchTable
\* data.id.map((id, index) => mapValues(data, (col) => col[index]))
DecodeTable(data) ==
    [index \in 1 .. Len(data["id"]) |->
        [c \in DOMAIN data |->
            IF index <= Len(data[c]) THEN data[c][index] ELSE Undef]]

\* ------------------------------------------------------------- syncTable
ScopeErrorNever(flt, keyCols) == FALSE

ScopeErrorSome(flt, keyCols) ==
    flt.on /\ ~(\E colId \in DOMAIN flt.spec : colId \in Range(keyCols))

\* The scope check: filters && !Object.keys(filters).every(keyColIds.includes)
ScopeError(flt, keyCols) ==
    flt.on /\ ~(\A colId \in DOMAIN flt.spec : colId \in Range(keyCols))

\* gristRows after the fetch loop: Map.set keeps, for each key, the row set
\* last.  The positions of the fetched rows stored under `key`:
KeyHits(fetchedData, keyCols, key) ==
    {i \in 1 .. Len(fetchedData) : makeKey(fetchedData[i], keyCols) = key}

HasRowNever(fetchedData, keyCols, key) == FALSE

\* gristRows.has(key) and gristRows.get(key).
HasRow(fetchedData, keyCols, key) == KeyHits(fetchedData, keyCols, key) # {}

GetRowFirst(fetchedData, keyCols, key) == fetchedData[1]

GetRow(fetchedData, keyCols, key) ==
    LET hits == KeyHits(fetchedData, keyCols, key)
    IN  fetchedData[CHOOSE i \in hits : \A j \in hits : j <= i]

changedKeysAll(newRec, oldRec) == DOMAIN newRec

\* Object.keys(newRec).filter((colId) => !isEqual(newRec[colId], oldRec[colId]))
changedKeys(newRec, oldRec) ==
    {colId \in DOMAIN newRec : ~isEqual(newRec[colId], Get(oldRec, colId))}

MakeUpdateWhole(newRec, oldRec) ==
    [c \in DOMAIN newRec \cup {"id"} |-> IF c = "id" THEN oldRec["id"] ELSE newRec[c]]

\* update = pick(newRec, changedKeys); update.id = oldRec.id
MakeUpdate(newRec, oldRec) ==
    LET picked == pick(newRec, changedKeys(newRec, oldRec))
    IN  [c \in DOMAIN picked \cup {"id"} |->
            IF c = "id" THEN oldRec["id"] ELSE picked[c]]

SkippedNever(newRec, flt) == FALSE

\* Whether the loop skips a record: filters && !filterMatches(newRec, filters)
Skipped(newRec, flt) == flt.on /\ ~filterMatches(newRec, flt.spec)

\* The loop over the desired records (lines 617-633).  upd and add are
\* updateList and addList; updSrc and addSrc hold, for each entry, the
\* position in `recs` of the record it was made from.
EmptyLists == [upd |-> << >>, add |-> << >>, updSrc |-> << >>, addSrc |-> << >>]

RECURSIVE DiffLoop(_, _, _, _, _, _)
DiffLoop(recs, fetchedData, keyCols, flt, i, acc) ==
    IF i > Len(recs) THEN acc
    ELSE
      LET newRec == recs[i]
          key == makeKey(newRec, keyCols)
          next ==
            IF Skipped(newRec, flt) THEN acc
            ELSE IF HasRow(fetchedData, keyCols, key)
            THEN LET oldRec == GetRow(fetchedData, keyCols, key)
                 IN  IF changedKeys(newRec, oldRec) # {}
                     THEN [acc EXCEPT !.upd = Append(@, MakeUpdate(newRec, oldRec)),
                                      !.updSrc = Append(@, i)]
                     ELSE acc
            ELSE [acc EXCEPT !.add = Append(@, newRec), !.addSrc = Append(@, i)]
      IN  DiffLoop(recs, fetchedData, keyCols, flt, i + 1, next)

SyncDiff(recs, fetchedData, keyCols, flt) ==
    DiffLoop(recs, fetchedData, keyCols, flt, 1, EmptyLists)

\* --------------------------------------------------------- updateRecords
\* typeof rec.id === 'number': of the values an id takes here, the row
\* numbers and Zero.
IsNumber(v) == v = Zero \/ v >= 1

BadIdAbsent(rec) == "id" \notin DOMAIN rec

\* !rec.id || typeof rec.id !== 'number': !rec.id holds for undefined, null
\* and the number 0.
BadId(rec) ==
    LET id == Get(rec, "id")
    IN  (id = Undef \/ id = Null \/ id = Zero) \/ ~IsNumber(id)

ShapeOfAny(rec) == {}

\* The key of a record's group: JSON.stringify(Object.keys(rec).sort()),
\* modelled as the set of its column ids.
ShapeOf(rec) == DOMAIN rec

\* groups.values(): the groups in order of first appearance, each holding its
\* records in input order.
FirstOfShape(recs, i) == \A j \in 1 .. (i - 1) : ShapeOf(recs[j]) # ShapeOf(recs[i])

RECURSIVE GroupsFrom(_, _)
GroupsFrom(recs, i) ==
    IF i > Len(recs) THEN << >>
    ELSE IF FirstOfShape(recs, i)
    THEN LET same(r) == ShapeOf(r) = ShapeOf(recs[i])
         IN  <<SelectSeq(recs, same)>> \o GroupsFrom(recs, i + 1)
    ELSE GroupsFrom(recs, i + 1)

groupByShape(recs) == GroupsFrom(recs, 1)

\* chunk(recs, chunkSize).map(makeTableData)
ChunkData(recs, size) ==
    LET cs == chunk(recs, size)
    IN  [i \in 1 .. Len(cs) |-> makeTableData(cs[i])]

RECURSIVE FlatData(_, _)
FlatData(groups, size) ==
    IF groups = << >> THEN << >>
    ELSE ChunkData(Head(groups), size) \o FlatData(Tail(groups), size)

\* callData of updateRecords (lines 587-590).
UpdateCallData(recs, size) == FlatData(groupByShape(recs), size)

AddCallDataWhole(recs, size) ==
    IF recs = << >> THEN << >> ELSE <<makeTableData(recs)>>

\* callData of addRecords (line 556).
AddCallData(recs, size) == ChunkData(recs, size)

\* deleteRecords: chunk(recordIds, chunkSize).
DeleteCallData(ids, size) == chunk(ids, size)

SyncOrderAddFirst == <<"add", "update">>

\* The order in which syncTable runs its two write operations (lines 636-637).
SyncOrder == <<"update", "add">>

\* callData of the write operation `ph` of syncTable.
CallDataFor(ph, upd, add, size) ==
    IF ph = "update" THEN UpdateCallData(upd, size) ELSE AddCallData(add, size)

AfterIssueNoAwait == "loop"

\* The state a `for (... of callData) await this._docCall(...)` loop is in
\* once it has issued a request: suspended until the response arrives.
AfterIssue == "wait"

SkipsRequestNever(dry, method) == FALSE

\* _call: if (this._dryrun && method !== 'GET') return;
SkipsRequest(dry, method) == dry /\ method # "GET"

\* The HTTP method each operation's requests use.
MethodOf(kind) ==
    CASE kind = "fetch" -> "GET"
      [] kind = "update" -> "PATCH"
      [] OTHER -> "POST"

\* constructor: this._chunkSize = options.chunkSize || 500 (0 stands for an
\* options object without chunkSize, and is falsy itself).
ChunkSizeOf(opt) == IF opt = 0 THEN DefaultChunkSize ELSE opt

\* ------------------------------------------------------------ the inputs
SeqsUpTo(S, n) == UNION {[1 .. k -> S] : k \in 0 .. n}

\* Desired records: any subset of the data columns, no id of their own.
Recs == UNION {[D -> Vals] : D \in SUBSET DataCols}

\* Records given to updateRecords: as above, with or without an id; an id is
\* a row number, the number 0 or null.
UpdRecs ==
    {r \in UNION {[D -> Zero .. (MaxRows + MaxVal)] : D \in SUBSET AllCols} :
        /\ \A c \in DOMAIN r \ {"id"} : r[c] \in Vals
        /\ "id" \in DOMAIN r => r["id"] \in {Zero, Null} \cup (1 .. MaxRows)}

KeyLists == {<< >>, <<"A">>, <<"B">>, <<"A", "B">>}

NoFilter == [on |-> FALSE, spec |-> [c \in {} |-> {}]]

FilterSpecs == {[c \in {} |-> {}]} \cup {[c \in {"A"} |-> L] : L \in {{1}, {Null}}}

Filters == {NoFilter} \cup {[on |-> TRUE, spec |-> f] : f \in FilterSpecs}

\* The tables the document may hold at the start: ids 1..n in order.
InitTables ==
    UNION {[1 .. n -> [DataCols -> Vals]] : n \in 0 .. MaxRows}

RowsOf(t) == [i \in 1 .. Len(t) |-> [c \in AllCols |-> IF c = "id" THEN i ELSE t[i][c]]]

\* ----------------------------------------------------------------- state
VARIABLES
    dryrun,      \* this._dryrun
    chunkSize,   \* this._chunkSize
    remote,      \* the document's table: its rows in fetch order
    nextId,      \* the id the document gives the next new row
    op,          \* the method invoked: syncTable, addRecords, ...
    pc,          \* where it stands: idle, fetch, loop, wait, done, failed
    phase,       \* the write operation whose loop runs: update, add, delete
    records,     \* options.records
    recordIds,   \* options.recordIds
    keyColIds,   \* options.keyColIds
    filters,     \* options.filters
    fetched,     \* fetchedData of syncTable
    lists,       \* updateList and addList of syncTable, with their sources
    callData,    \* the payloads the running loop has not sent yet
    inflight,    \* the requests issued and not yet answered
    log,         \* this invocation's requests and responses, in order
    result,      \* what the invocation returned or threw
    calls,       \* invocations started so far
    history,     \* how each earlier invocation ended, and what it returned
    start,       \* the table and next id when the first invocation began
    acked,       \* rows of acknowledged add / update payloads, all invocations
    wire         \* this invocation's request bodies and response bodies, in order

vars == <<dryrun, chunkSize, remote, nextId, op, pc, phase, records, recordIds,
          keyColIds, filters, fetched, lists, callData, inflight, log, result,
          calls, history, start, acked, wire>>

client == <<dryrun, chunkSize>>
args == <<records, recordIds, keyColIds, filters>>

NoResult == [numAdded |-> 0, numUpdated |-> 0, ids |-> << >>, error |-> ""]

\* new GristDocAPI(options), options.chunkSize being one of chunkOpts.
Constructed(chunkOpts) ==
    /\ dryrun \in BOOLEAN
    /\ chunkSize \in {ChunkSizeOf(o) : o \in chunkOpts}
    /\ \E t \in InitTables :
          /\ remote = RowsOf(t)
          /\ nextId = Len(t) + 1
          /\ start = [remote |-> RowsOf(t), nextId |-> Len(t) + 1]
    /\ op = "none"
    /\ pc = "idle"
    /\ phase = "none"
    /\ records = << >>
    /\ recordIds = << >>
    /\ keyColIds = << >>
    /\ filters = NoFilter
    /\ fetched = << >>
    /\ lists = EmptyLists
    /\ callData = << >>
    /\ inflight = << >>
    /\ log = << >>
    /\ result = NoResult
    /\ calls = 0
    /\ history = << >>
    /\ acked = [add |-> 0, update |-> 0]
    /\ wire = << >>

\* The client is configured with a positive chunkSize or with none.
Init == Constructed(0 .. MaxChunk)

\* The client is configured with any integer chunkSize from -1 up, or none.
InitCfg == Constructed((0 - 1) .. MaxChunk)

\* An invocation ends: it returned (outcome "ok") or threw.
Ended(outcome, res) ==
    /\ pc' = (IF outcome = "ok" THEN "done" ELSE "failed")
    /\ result' = [res EXCEPT !.error = IF outcome = "ok" THEN "" ELSE outcome]
    /\ history' = Append(history, [outcome |-> outcome,
                                   numAdded |-> res.numAdded,
                                   numUpdated |-> res.numUpdated,
                                   log |-> log'])

\* An invocation begins: its locals are fresh.
Begin(name) ==
    /\ op' = name
    /\ calls' = calls + 1
    /\ fetched' = << >>
    /\ UNCHANGED <<client, remote, nextId, start, acked>>

Req(kind, data) == [kind |-> kind, data |-> data]

Event(ev, kind, rows) == [ev |-> ev, kind |-> kind, rows |-> rows]

\* A body on the wire: a request's data ("out") or a response's data ("in").
Msg(dir, kind, data) == [dir |-> dir, kind |-> kind, data |-> data]

\* The ids POST .../data answers: one per row of the payload, in row order.
ServerNewIds(nid, n) == [i \in 1 .. n |-> nid + i - 1]

PushResultsFront(results, resp) == resp \o results

\* addRecords: results.push(...(resp || []))
PushResults(results, resp) == results \o resp

\* syncTable, up to its first await: the scope check, then fetchTable's GET.
SyncStart(recs, keyCols, flt) ==
    /\ Begin("syncTable")
    /\ records' = recs
    /\ keyColIds' = keyCols
    /\ filters' = flt
    /\ UNCHANGED recordIds
    /\ lists' = EmptyLists
    /\ callData' = << >>
    /\ wire' = << >>
    /\ phase' = "none"
    /\ IF ScopeError(flt, keyCols)
       THEN /\ inflight' = << >>
            /\ log' = << >>
            /\ Ended("scope", NoResult)
       ELSE /\ inflight' = <<Req("fetch", flt)>>
            /\ log' = <<Event("req", "fetch", 0)>>
            /\ pc' = "fetch"
            /\ result' = NoResult
            /\ UNCHANGED history

InvokeSync ==
    /\ calls = 0
    /\ pc = "idle"
    /\ \E recs \in SeqsUpTo(Recs, MaxRecs), keyCols \in KeyLists, flt \in Filters :
          SyncStart(recs, keyCols, flt)

\* The caller invokes syncTable again with the options it passed before.
Reinvoke ==
    /\ calls \in 1 .. (MaxCalls - 1)
    /\ op = "syncTable"
    /\ pc \in {"done", "failed"}
    /\ SyncStart(records, keyColIds, filters)

\* The rows a request's payload holds.
RowsIn(kind, data) ==
    CASE kind = "delete" -> Len(data)
      [] kind = "fetch" -> 0
      [] OTHER -> NumRows(data)

\* One of syncTable's write operations begins: updateRecords checks every
\* record's id before it builds callData; addRecords builds callData (none
\* for an empty list).
StartWrites(ph, ls) ==
    IF ph = "update" /\ (\E i \in 1 .. Len(ls.upd) : BadId(ls.upd[i]))
    THEN /\ phase' = ph
         /\ callData' = << >>
         /\ Ended("id", NoResult)
    ELSE /\ phase' = ph
         /\ callData' = CallDataFor(ph, ls.upd, ls.add, chunkSize)
         /\ pc' = "loop"
         /\ UNCHANGED <<result, history>>

\* fetchTable's GET is answered: the rows are decoded, indexed and diffed
\* against the desired records, and the first write operation begins.
FetchOk ==
    /\ pc = "fetch"
    /\ inflight # << >>
    /\ Head(inflight).kind = "fetch"
    /\ LET rows == DecodeTable(ServerFetch(remote, Head(inflight).data))
           ls == SyncDiff(records, rows, keyColIds, filters)
       IN  /\ fetched' = rows
           /\ lists' = ls
           /\ log' = Append(log, Event("ok", "fetch", Len(rows)))
           /\ StartWrites(SyncOrder[1], ls)
    /\ inflight' = Tail(inflight)
    /\ UNCHANGED <<client, remote, nextId, op, args, calls, start, acked, wire>>

\* One iteration of a `for (const data of callData)` loop up to its await:
\* _call sends the request, or returns at once under dryrun.
LoopIssue ==
    /\ pc = "loop"
    /\ callData # << >>
    /\ callData' = Tail(callData)
    /\ IF SkipsRequest(dryrun, MethodOf(phase))
       THEN UNCHANGED <<inflight, log, pc, wire>>
       ELSE /\ inflight' = Append(inflight, Req(phase, Head(callData)))
            /\ wire' = Append(wire, Msg("out", phase, Head(callData)))
            /\ log' = Append(log, Event("req", phase, RowsIn(phase, Head(callData))))
            /\ pc' = AfterIssue
    /\ UNCHANGED <<client, remote, nextId, op, phase, args, fetched, lists,
                   result, calls, history, start, acked>>

\* The document applies the oldest outstanding write and answers it.
RespondOk ==
    /\ pc \in {"wait", "loop"}
    /\ inflight # << >>
    /\ LET req == Head(inflight)
           n == RowsIn(req.kind, req.data)
       IN  /\ req.kind # "fetch"
           /\ ~(req.kind = "add" /\ ServerRejectsAdd(req.data))
           /\ remote' = (CASE req.kind = "add" -> ServerAdd(remote, nextId, req.data)
                           [] req.kind = "update" -> ServerUpdate(remote, req.data)
                           [] OTHER -> ServerDelete(remote, req.data))
           /\ nextId' = (IF req.kind = "add" THEN nextId + n ELSE nextId)
           /\ result' = (IF req.kind = "add"
                         THEN [result EXCEPT
                                 !.ids = PushResults(@, ServerNewIds(nextId, n))]
                         ELSE result)
           /\ wire' = Append(wire, Msg("in", req.kind,
                                       IF req.kind = "add"
                                       THEN ServerNewIds(nextId, n) ELSE << >>))
           /\ acked' = (IF req.kind \in {"add", "update"}
                        THEN [acked EXCEPT ![req.kind] = @ + n]
                        ELSE acked)
           /\ log' = Append(log, Event("ok", req.kind, n))
    /\ inflight' = Tail(inflight)
    /\ pc' = "loop"
    /\ UNCHANGED <<client, op, phase, args, fetched, lists, callData, calls,
                   history, start>>

\* A request fails without having been applied (a transport error, or the
\* document's error response): _call rethrows and the invocation ends.
RespondFail ==
    /\ pc \in {"fetch", "wait", "loop"}
    /\ inflight # << >>
    /\ inflight' = Tail(inflight)
    /\ log' = Append(log, Event("fail", Head(inflight).kind, 0))
    /\ Ended("transport", result)
    /\ UNCHANGED <<client, remote, nextId, op, phase, args, fetched, lists,
                   callData, calls, start, acked, wire>>

\* The loop has sent all of callData: syncTable goes on to its second write
\* operation, and otherwise the invocation returns.
LoopExit ==
    /\ pc = "loop"
    /\ callData = << >>
    /\ inflight = << >>
    /\ IF op = "syncTable" /\ phase = SyncOrder[1]
       THEN /\ StartWrites(SyncOrder[2], lists)
            /\ UNCHANGED log
       ELSE /\ UNCHANGED <<phase, callData, log>>
            /\ Ended("ok", IF op = "syncTable"
                           THEN [result EXCEPT !.numAdded = Len(lists.add),
                                               !.numUpdated = Len(lists.upd)]
                           ELSE result)
    /\ UNCHANGED <<client, remote, nextId, op, args, fetched, lists, inflight,
                   calls, start, acked, wire>>

\* addRecords, updateRecords and deleteRecords called on their own.
Standalone(name, ph, recs, ids, data) ==
    /\ Begin(name)
    /\ records' = recs
    /\ recordIds' = ids
    /\ UNCHANGED <<keyColIds, filters>>
    /\ lists' = EmptyLists
    /\ inflight' = << >>
    /\ log' = << >>
    /\ wire' = << >>
    /\ phase' = ph
    /\ IF ph = "update" /\ (\E i \in 1 .. Len(recs) : BadId(recs[i]))
       THEN /\ callData' = << >>
            /\ Ended("id", NoResult)
       ELSE /\ callData' = data
            /\ pc' = "loop"
            /\ result' = NoResult
            /\ UNCHANGED history

InvokeAdd ==
    /\ calls = 0
    /\ pc = "idle"
    /\ \E recs \in SeqsUpTo(Recs, MaxRecs) :
        Standalone("addRecords", "add", recs, << >>, AddCallData(recs, chunkSize))

InvokeUpdateUpTo(n) ==
    /\ calls = 0
    /\ pc = "idle"
    /\ \E recs \in SeqsUpTo(UpdRecs, n) :
        Standalone("updateRecords", "update", recs, << >>, UpdateCallData(recs, chunkSize))

InvokeUpdate == InvokeUpdateUpTo(MaxRecs)

InvokeDelete ==
    /\ calls = 0
    /\ pc = "idle"
    /\ \E ids \in SeqsUpTo(1 .. (MaxRows + 1), MaxRecs) :
        Standalone("deleteRecords", "delete", << >>, ids, DeleteCallData(ids, chunkSize))

Next ==
    \/ InvokeSync
    \/ Reinvoke
    \/ FetchOk
    \/ LoopIssue
    \/ RespondOk
    \/ RespondFail
    \/ LoopExit
    \/ InvokeAdd
    \/ InvokeUpdate
    \/ InvokeDelete

Spec == Init /\ [][Next]_vars

SpecCfg == InitCfg /\ [][Next]_vars

\* updateRecords on its own, given up to MaxUpd records, on a table of
\* MaxRows rows.
InitUpd ==
    /\ Init
    /\ remote = RowsOf([i \in 1 .. MaxRows |-> [c \in DataCols |-> Null]])

InvokeUpdateLong == InvokeUpdateUpTo(MaxUpd)

NextUpd ==
    \/ InvokeUpdateLong
    \/ LoopIssue
    \/ RespondOk
    \/ RespondFail
    \/ LoopExit

SpecUpd == InitUpd /\ [][NextUpd]_vars

\* fetchTable on its own, answered by a document that may not keep to the
\* column-oriented format: `arr` is Array.isArray(data.id), and the lists of
\* the columns may differ in length.
Responses ==
    [arr : BOOLEAN,
     cols : [{"id", "A"} -> SeqsUpTo(Vals \cup (1 .. MaxRows), MaxCells)]]

\* Lines 545-548: the id column is checked to be an array, then the rows are
\* read off the columns.
FetchTableResult(resp) ==
    IF ~resp.arr
    THEN [error |-> "badResponse", rows |-> << >>]
    ELSE [error |-> "", rows |-> DecodeTable(resp.cols)]

InvokeFetch ==
    /\ calls = 0
    /\ pc = "idle"
    /\ Begin("fetchTable")
    /\ \E flt \in Filters :
          /\ filters' = flt
          /\ inflight' = <<Req("fetch", flt)>>
    /\ log' = <<Event("req", "fetch", 0)>>
    /\ pc' = "fetch"
    /\ UNCHANGED <<records, recordIds, keyColIds, lists, callData, phase, result,
                   history, wire>>

FetchAnswer ==
    /\ op = "fetchTable"
    /\ pc = "fetch"
    /\ inflight # << >>
    /\ \E resp \in Responses :
          LET res == FetchTableResult(resp)
          IN  /\ wire' = Append(wire, Msg("in", "fetch", resp))
              /\ fetched' = res.rows
              /\ log' = Append(log, Event("ok", "fetch", Len(res.rows)))
              /\ Ended(IF res.error = "" THEN "ok" ELSE res.error, result)
    /\ inflight' = Tail(inflight)
    /\ UNCHANGED <<client, remote, nextId, op, phase, args, lists, callData,
                   calls, start, acked>>

NextDecode ==
    \/ InvokeFetch
    \/ FetchAnswer
    \/ RespondFail

SpecDecode == Init /\ [][NextDecode]_vars

\* ================================================================ claims
\* Two records have the same key when makeKey gives them the same text; what
\* that says about their values is the subject of the claim on makeKey.

IsWrite(e) == e.ev = "req" /\ e.kind # "fetch"

Writes(l) == SelectSeq(l, IsWrite)

\* A record satisfies a filter: no filter column holds a value outside the
\* column's allowed list.
InScope(rec, flt) ==
    ~(flt.on /\ \E c \in DOMAIN flt.spec : Get(rec, c) \notin flt.spec[c])

NoDupKeys(recs, keyCols) ==
    \A i, j \in 1 .. Len(recs) :
        makeKey(recs[i], keyCols) = makeKey(recs[j], keyCols) => i = j

\* No two records share the tuple of their values at the key columns.
NoDupTuples(recs, keyCols) ==
    \A i, j \in 1 .. Len(recs) :
        (\A k \in 1 .. Len(keyCols) : Get(recs[i], keyCols[k]) = Get(recs[j], keyCols[k]))
            => i = j

Syncing == op = "syncTable" /\ pc # "idle"

SecondRunClean ==
    /\ result.numAdded = 0
    /\ result.numUpdated = 0
    /\ Writes(log) = << >>

AfterCleanRun ==
    /\ op = "syncTable"
    /\ pc = "done"
    /\ Len(history) >= 2
    /\ history[Len(history) - 1].outcome = "ok"

HitsOf(i) ==
    {k \in 1 .. Len(fetched) :
        makeKey(fetched[k], keyColIds) = makeKey(records[i], keyColIds)}

IndexedRow(i) == fetched[CHOOSE k \in HitsOf(i) : \A j \in HitsOf(i) : j <= k]

Differing(rec, old) == {c \in DOMAIN rec : rec[c] # Get(old, c)}

UpdatesOf(i) == {k \in 1 .. Len(lists.updSrc) : lists.updSrc[k] = i}

Diffed == op = "syncTable" /\ phase # "none"

\* C3: a desired record that reaches the diff and whose key matches a fetched
\* row gets an update iff some column it carries differs from the row; the
\* update holds exactly the differing columns, with the desired values, and
\* the row's id; the record is never inserted.
C3_UpdateExactlyChanged ==
    Diffed =>
        \A i \in 1 .. Len(records) :
            (InScope(records[i], filters) /\ HitsOf(i) # {}) =>
                LET diff == Differing(records[i], IndexedRow(i))
                IN  /\ (UpdatesOf(i) # {}) <=> (diff # {})
                    /\ Cardinality(UpdatesOf(i)) <= 1
                    /\ i \notin Range(lists.addSrc)
                    /\ \A k \in UpdatesOf(i) :
                          /\ DOMAIN lists.upd[k] = diff \cup {"id"}
                          /\ lists.upd[k]["id"] = IndexedRow(i)["id"]
                          /\ \A c \in diff : lists.upd[k][c] = records[i][c]

C3_Witness ==
    /\ Diffed
    /\ \E i \in 1 .. Len(records) :
          /\ InScope(records[i], filters)
          /\ HitsOf(i) # {}
          /\ UpdatesOf(i) # {}
          /\ Differing(records[i], IndexedRow(i)) # DOMAIN records[i]
    /\ \E i \in 1 .. Len(records) :
          /\ InScope(records[i], filters)
          /\ HitsOf(i) # {}
          /\ UpdatesOf(i) = {}
          /\ DOMAIN records[i] # {}

ReqsOf(kind) == {i \in 1 .. Len(log) : log[i].ev = "req" /\ log[i].kind = kind}

EventsOf(kind) == {i \in 1 .. Len(log) : log[i].kind = kind}

RECURSIVE SumRows(_, _, _)
SumRows(l, ev, kind) ==
    IF l = << >> THEN 0
    ELSE (IF Head(l).ev = ev /\ Head(l).kind = kind THEN Head(l).rows ELSE 0)
         + SumRows(Tail(l), ev, kind)

\* C4 as stated: in one syncTable every insert request is issued and
\* answered before any update request is issued.
C4_InsertsFirst_AsStated ==
    Syncing => \A i \in EventsOf("add"), j \in ReqsOf("update") : i < j

\* C4, amended: every update request is issued and answered before any insert
\* request is issued, and by then every update has been acknowledged.
C4_UpdatesFirst ==
    Syncing =>
        /\ \A i \in EventsOf("update"), j \in ReqsOf("add") : i < j
        /\ ReqsOf("add") # {} => SumRows(log, "ok", "update") = Len(lists.upd)

C4_Witness ==
    /\ Syncing
    /\ pc = "done"
    /\ ReqsOf("add") # {}
    /\ ReqsOf("update") # {}

\* C5: when two fetched rows have the same key, syncTable fails with a
\* key-collision error and issues no insert or update request.
C5_KeyCollisionFails ==
    (Diffed /\ ~NoDupKeys(fetched, keyColIds)) =>
        /\ pc = "failed"
        /\ result.error = "collision"
        /\ Writes(log) = << >>

\* The rows of the table as it was before the first syncTable that no desired
\* record in scope has the key of.
Unmatched(k) ==
    \A i \in 1 .. Len(records) :
        InScope(records[i], filters) =>
            makeKey(records[i], keyColIds) # makeKey(start.remote[k], keyColIds)

\* C6: syncTable issues no delete request, and a row whose key is the key of
\* no desired record in scope keeps every cell.
C6_UnmatchedUntouched ==
    Syncing =>
        /\ EventsOf("delete") = {}
        /\ Len(remote) >= Len(start.remote)
        /\ \A k \in 1 .. Len(start.remote) : Unmatched(k) => remote[k] = start.remote[k]

C6_Witness ==
    /\ Syncing
    /\ pc = "done"
    /\ \E k \in 1 .. Len(start.remote) : Unmatched(k)
    /\ \E k \in 1 .. Len(start.remote) : remote[k] # start.remote[k]

\* C7: a desired record that does not satisfy the filter is in no insert and
\* no update payload and is not counted, even when its key is the key of a
\* fetched row: the lists hold records in scope only, the counts returned are
\* the lists' lengths, and the payloads hold no more rows than the lists.
C7_OutOfScopeSkipped ==
    Diffed =>
        /\ \A i \in 1 .. Len(records) :
              ~InScope(records[i], filters) =>
                  (i \notin Range(lists.addSrc) /\ i \notin Range(lists.updSrc))
        /\ Len(lists.add) = Len(lists.addSrc)
        /\ Len(lists.upd) = Len(lists.updSrc)
        /\ SumRows(log, "req", "add") <= Len(lists.add)
        /\ SumRows(log, "req", "update") <= Len(lists.upd)
        /\ pc = "done" =>
              /\ result.numAdded = Len(lists.add)
              /\ result.numUpdated = Len(lists.upd)

C7_Witness ==
    /\ Diffed
    /\ pc = "done"
    /\ ~dryrun
    /\ \E i \in 1 .. Len(records) : ~InScope(records[i], filters) /\ HitsOf(i) # {}
    /\ result.numAdded + result.numUpdated > 0

RowsWithKeyOf(i) ==
    {k \in 1 .. Len(remote) :
        makeKey(remote[k], keyColIds) = makeKey(records[i], keyColIds)}

C9_OneAtATime ==
    /\ Len(inflight) <= 1
    /\ \A i \in 1 .. Len(log) :
          /\ log[i].ev = "req" => (i = 1 \/ log[i - 1].ev = "ok")
          /\ log[i].ev = "fail" =>
                (i = Len(log) /\ pc = "failed" /\ result.error = "transport")
    /\ pc \in {"done", "failed"} => inflight = << >>
    /\ op \in {"syncTable", "addRecords", "updateRecords"} =>
          Len(remote) = Len(start.remote) + acked.add

\* The step in which an invocation fails leaves the table as it was.
C9_FailureKeepsTable == (pc' = "failed") => (remote' = remote /\ nextId' = nextId)

\* C9: in syncTable, addRecords, updateRecords and deleteRecords the chunk
\* requests go out strictly one at a time; when one fails the operation fails
\* with that error, no later chunk is sent, the failed one is not retried, and
\* the chunks acknowledged before stay applied (no rollback, no compensating
\* request).
C9_Sequential == []C9_OneAtATime /\ [][C9_FailureKeepsTable]_vars

C9_Witness ==
    /\ pc = "failed"
    /\ Len(log) >= 4
    /\ log[Len(log)].ev = "fail"
    /\ log[Len(log) - 1].ev = "req"
    /\ log[Len(log) - 2].ev = "ok"
    /\ log[Len(log) - 2].kind # "fetch"
    /\ remote # start.remote

\* The table an uninterrupted syncTable with the current options makes of
\* table `st`, and the lists it computes.
RECURSIVE ApplyAll(_, _, _)
ApplyAll(st, kind, payloads) ==
    IF payloads = << >> THEN st
    ELSE ApplyAll(
            IF kind = "add"
            THEN [remote |-> ServerAdd(st.remote, st.nextId, Head(payloads)),
                  nextId |-> st.nextId + NumRows(Head(payloads))]
            ELSE [remote |-> ServerUpdate(st.remote, Head(payloads)),
                  nextId |-> st.nextId],
            kind, Tail(payloads))

ListsFrom(st) ==
    SyncDiff(records, DecodeTable(ServerFetch(st.remote, filters)), keyColIds, filters)

Uninterrupted(st) ==
    LET ls == ListsFrom(st)
        one == ApplyAll(st, SyncOrder[1],
                        CallDataFor(SyncOrder[1], ls.upd, ls.add, chunkSize))
    IN  ApplyAll(one, SyncOrder[2],
                 CallDataFor(SyncOrder[2], ls.upd, ls.add, chunkSize))

ChunkFailed(h) ==
    /\ h.outcome = "transport"
    /\ h.log[Len(h.log)].kind \in {"add", "update"}

Retried ==
    /\ op = "syncTable"
    /\ pc = "done"
    /\ Len(history) >= 2
    /\ \A n \in 1 .. (Len(history) - 1) : ChunkFailed(history[n])

SameAsUninterrupted ==
    /\ remote = Uninterrupted(start).remote
    /\ acked.add = Len(ListsFrom(start).add)
    /\ acked.update = Len(ListsFrom(start).upd)

\* C10 as stated: a syncTable that ends after earlier attempts with the same
\* options were aborted by a failed chunk request leaves the table as one
\* uninterrupted syncTable would have, no record inserted twice and no row
\* updated twice.
C10_RetrySafe_AsStated == Retried => SameAsUninterrupted

\* C10, amended: the same when no two desired records have the same key.
C10_RetrySafe == (Retried /\ NoDupKeys(records, keyColIds)) => SameAsUninterrupted

C10_Witness ==
    /\ Retried
    /\ NoDupKeys(records, keyColIds)
    /\ acked.add + acked.update >= 2
    /\ Writes(history[1].log) # << >>
    /\ Len(Writes(log)) = 1
    /\ SumRows(history[1].log, "ok", "add") + SumRows(history[1].log, "ok", "update") = 1

\* How the diff classifies desired record i against the fetched rows.
ClassOf(i) ==
    IF HitsOf(i) = {} THEN "unmatched"
    ELSE IF Differing(records[i], IndexedRow(i)) = {} THEN "matched-unchanged"
    ELSE "matched-changed"

InScopeIn(class) ==
    {i \in 1 .. Len(records) : InScope(records[i], filters) /\ ClassOf(i) = class}

\* Every record in scope is in addList iff unmatched and in updateList iff
\* matched and changed, once; the counts returned are the numbers of unmatched
\* and of matched-changed records, and their sum is at most the number of
\* records in scope.
Classified ==
    /\ \A i \in 1 .. Len(records) :
          InScope(records[i], filters) =>
              /\ (i \in Range(lists.addSrc)) <=> (ClassOf(i) = "unmatched")
              /\ (i \in Range(lists.updSrc)) <=> (ClassOf(i) = "matched-changed")
    /\ Cardinality(Range(lists.addSrc)) = Len(lists.add)
    /\ Cardinality(Range(lists.updSrc)) = Len(lists.upd)
    /\ pc = "done" =>
          /\ result.numAdded = Cardinality(InScopeIn("unmatched"))
          /\ result.numUpdated = Cardinality(InScopeIn("matched-changed"))
          /\ result.numAdded + result.numUpdated
                <= Cardinality({i \in 1 .. Len(records) : InScope(records[i], filters)})

\* The counts returned are the rows sent in insert and in update payloads.
CountsAreRowsSent ==
    /\ result.numAdded = SumRows(log, "req", "add")
    /\ result.numUpdated = SumRows(log, "req", "update")

OutData(kind) ==
    LET sent(m) == m.dir = "out" /\ m.kind = kind
        msgs == SelectSeq(wire, sent)
    IN  [k \in 1 .. Len(msgs) |-> msgs[k].data]

\* The rows a request body holds: a payload's rows, or an id list's length.
RowsOfBody(kind, body) == IF kind = "delete" THEN Len(body) ELSE NumRows(body)

RECURSIVE RowsBefore(_, _, _)
RowsBefore(kind, bodies, k) ==
    IF k <= 1 THEN 0
    ELSE RowsBefore(kind, bodies, k - 1) + RowsOfBody(kind, bodies[k - 1])

\* Row j of a payload is the record: it has the record's value in every
\* column the record carries, and nothing in the others.
RowIs(data, j, rec) ==
    /\ DOMAIN rec \subseteq DOMAIN data
    /\ \A c \in DOMAIN data : data[c][j] = Get(rec, c)

\* The request bodies sent so far split the input, in order, into batches of
\* chunkSize items, the last one possibly shorter; when `all`, none is missing.
Batched(kind, input, all) ==
    LET bodies == OutData(kind)
        n(k) == RowsOfBody(kind, bodies[k])
        off(k) == RowsBefore(kind, bodies, k)
    IN  /\ \A k \in 1 .. Len(bodies) :
              /\ n(k) >= 1
              /\ n(k) <= chunkSize
              /\ k < Len(bodies) => n(k) = chunkSize
              /\ off(k) + n(k) <= Len(input)
              /\ \A j \in 1 .. n(k) :
                    IF kind = "delete"
                    THEN bodies[k][j] = input[off(k) + j]
                    ELSE RowIs(bodies[k], j, input[off(k) + j])
        /\ all => RowsBefore(kind, bodies, Len(bodies) + 1) = Len(input)
        /\ input = << >> => bodies = << >>

BatchedAdd(all) == op = "addRecords" => Batched("add", records, all)

BatchedDelete(all) == op = "deleteRecords" => Batched("delete", recordIds, all)

HasColumns(recs) == \A i \in 1 .. Len(recs) : DOMAIN recs[i] # {}

\* C12 as stated: the batch size is always a positive integer, and the request
\* bodies of addRecords and of deleteRecords hold between 1 and batch-size
\* rows each, all but the last exactly batch-size, and put together in request
\* order they are the input list; an empty input produces no request.
C12_Batches_AsStated ==
    /\ chunkSize >= 1
    /\ BatchedAdd(pc = "done")
    /\ BatchedDelete(pc = "done")

\* C12, amended: the batch size is never 0; when it is positive, the request
\* bodies of deleteRecords, and of addRecords given records that each carry a
\* column, are as stated, none missing once the operation has returned
\* without dryrun.
C12_Batches ==
    /\ chunkSize # 0
    /\ chunkSize >= 1 =>
          /\ HasColumns(records) => BatchedAdd(pc = "done" /\ ~dryrun)
          /\ BatchedDelete(pc = "done" /\ ~dryrun)

C12_Witness ==
    /\ op \in {"addRecords", "deleteRecords"}
    /\ pc = "done"
    /\ chunkSize = 1
    /\ ~dryrun
    /\ HasColumns(records)
    /\ Len(records) + Len(recordIds) = 2
    /\ Len(OutData(phase)) = 2

\* The place of record i in the order in which updateRecords sends its
\* records: by first appearance of the record's set of column ids, and by
\* input position among the records of one set.
FirstWithShape(recs, i) ==
    CHOOSE j \in 1 .. Len(recs) :
        /\ DOMAIN recs[j] = DOMAIN recs[i]
        /\ \A h \in 1 .. (j - 1) : DOMAIN recs[h] # DOMAIN recs[i]

SentBefore(recs, i, j) ==
    \/ FirstWithShape(recs, i) < FirstWithShape(recs, j)
    \/ FirstWithShape(recs, i) = FirstWithShape(recs, j) /\ i < j

SendOrder(recs) ==
    [p \in 1 .. Len(recs) |->
        CHOOSE i \in 1 .. Len(recs) :
            Cardinality({j \in 1 .. Len(recs) : SentBefore(recs, j, i)}) = p - 1]

\* The update payloads sent so far hold the records in that order, each
\* payload rows of one set of column ids only and none of its cells absent,
\* at most chunkSize rows per payload, and fewer only in the last payload of
\* a group; when `all`, no record is missing.
GroupedAndChunked(input, all) ==
    LET bodies == OutData("update")
        n(k) == NumRows(bodies[k])
        off(k) == RowsBefore("update", bodies, k)
        order == SendOrder(input)
    IN  /\ \A k \in 1 .. Len(bodies) :
              /\ n(k) >= 1
              /\ n(k) <= chunkSize
              /\ off(k) + n(k) <= Len(input)
              /\ \A j \in 1 .. n(k) :
                    LET rec == input[order[off(k) + j]]
                    IN  /\ DOMAIN bodies[k] = DOMAIN rec
                        /\ \A c \in DOMAIN rec :
                              bodies[k][c][j] = rec[c] /\ bodies[k][c][j] # Undef
              /\ (k < Len(bodies) /\ DOMAIN bodies[k + 1] = DOMAIN bodies[k]) =>
                    n(k) = chunkSize
        /\ all => RowsBefore("update", bodies, Len(bodies) + 1) = Len(input)

\* C13: updateRecords sends its records grouped by their exact set of column
\* ids, the groups in order of first appearance and the records of a group in
\* input order, each group in chunks of at most the batch size, requests in
\* group order and then chunk order; no update payload holds an absent cell.
C13_GroupedByShape ==
    op = "updateRecords" => GroupedAndChunked(records, pc = "done" /\ ~dryrun)

C13_Witness ==
    /\ op = "updateRecords"
    /\ pc = "done"
    /\ ~dryrun
    /\ Len(records) = 3
    /\ SendOrder(records) = <<1, 3, 2>>
    /\ Len(OutData("update")) = 2

Updating == op = "updateRecords" /\ pc # "idle"

MissingId == pc = "failed" /\ result.error = "id"

\* updateRecords failed for a record's id only if it had sent nothing.
NothingSentOnMissingId == MissingId => (log = << >> /\ wire = << >> /\ inflight = << >>)

\* C14 as stated: updateRecords fails with the missing-id error iff one of its
\* records carries no numeric id, and then no update request has been sent,
\* not even for the records before the offending one.
C14_MissingId_AsStated ==
    Updating =>
        /\ MissingId <=> (\E i \in 1 .. Len(records) : ~IsNumber(Get(records[i], "id")))
        /\ NothingSentOnMissingId

\* C14, amended: it fails so iff one of its records has an id that is absent,
\* not a number, or the number 0; and then no request has been sent.
C14_MissingId ==
    Updating =>
        /\ MissingId <=>
              (\E i \in 1 .. Len(records) :
                  ~IsNumber(Get(records[i], "id")) \/ Get(records[i], "id") = Zero)
        /\ NothingSentOnMissingId

C14_Witness ==
    /\ Updating
    /\ MissingId
    /\ Len(records) = 3
    /\ \A i \in 1 .. 2 : Get(records[i], "id") >= 1
    /\ Get(records[3], "id") = Zero
    /\ wire = << >>

\* Two records have equal values at every key column; a column one of them
\* lacks is equal only to a column the other lacks.
SameKeyValues(a, b, keyCols) ==
    \A k \in 1 .. Len(keyCols) : isEqual(Get(a, keyCols[k]), Get(b, keyCols[k]))

\* C15: makeKey gives two records the same key iff they have equal values at
\* every key column, a key column absent in one and null in the other
\* included; here for the desired records and the fetched rows of a syncTable.
C15_KeysCollisionFree ==
    Diffed =>
        \A a, b \in Range(records) \cup Range(fetched) :
            (makeKey(a, keyColIds) = makeKey(b, keyColIds))
                <=> SameKeyValues(a, b, keyColIds)

Answered == op = "fetchTable" /\ pc \in {"done", "failed"} /\ wire # << >>

Malformed(resp) ==
    \/ ~resp.arr
    \/ \E c \in DOMAIN resp.cols : Len(resp.cols[c]) # Len(resp.cols["id"])

\* C17: fetchTable fails with a malformed-table error when the id column of
\* the response is not a list and when another column's list has not the id
\* column's length; otherwise it returns one record per id position, holding
\* every column's value at that position.
C17_DecodeChecked ==
    Answered =>
        LET resp == wire[1].data
        IN  IF Malformed(resp)
            THEN pc = "failed" /\ result.error = "badResponse"
            ELSE /\ pc = "done"
                 /\ Len(fetched) = Len(resp.cols["id"])
                 /\ \A i \in 1 .. Len(fetched) :
                       /\ DOMAIN fetched[i] = DOMAIN resp.cols
                       /\ \A c \in DOMAIN resp.cols : fetched[i][c] = resp.cols[c][i]

\* The bodies of the responses of one kind received so far, in order.
InData(kind) ==
    LET got(m) == m.dir = "in" /\ m.kind = kind
        msgs == SelectSeq(wire, got)
    IN  [k \in 1 .. Len(msgs) |-> msgs[k].data]

RECURSIVE Concat(_)
Concat(seqs) ==
    IF seqs = << >> THEN << >> ELSE Head(seqs) \o Concat(Tail(seqs))

\* The row of the table with the given id holds the record's values.
RowHolds(id, rec) ==
    \E k \in 1 .. Len(remote) :
        /\ remote[k]["id"] = id
        /\ \A c \in DOMAIN rec : remote[k][c] = rec[c]

Excluded(row) == ~InScope(row, filters)

====
